---- MODULE Spec2Model ----
(***************************************************************************)
(* Model of the spelling-suggestion engine of src/src/spell_check.c.       *)
(*                                                                         *)
(* One request (SpellCheck_Reply) runs against an index (the term trie,    *)
(* the inverted indexes and the document table) and a key space of named   *)
(* dictionaries.  The reply is the flat sequence of RedisModule_ReplyWith* *)
(* calls the code makes, in order.  Another client may delete a dictionary *)
(* while the request is being served.                                      *)
(***************************************************************************)
EXTENDS Integers, Sequences, FiniteSets

\* ------------------------------------------------------------------ bounds
MaxDocs == 2          \* largest number of real documents in the corpus
MaxDistance == 2      \* largest configured edit distance

\* ------------------------------------------------------------------ terms
helo == <<"h", "e", "l", "o">>
hello == <<"h", "e", "l", "l", "o">>
help == <<"h", "e", "l", "p">>
held == <<"h", "e", "l", "d">>

Terms == {helo, hello, help, held}
\* terms that documents of the corpus may contain
IndexTerms == {hello, help, held}

\* field ids; a field mask is a set of field ids
Fields == {1, 2}
FieldMasks == {{1}, {1, 2}}

DictNames == {"d1", "d2"}

\* an opened key is the one-element tuple of its value; a key that is not there
\* opens as NULL
NULL == <<>>

\* ------------------------------------------------------------------ scores
\* A double is kept as an exact fraction num/den with den > 0.
Double(n, d) == [num |-> n, den |-> d]
ScoreEq(a, b) == a.num * b.den = b.num * a.den
ScoreLess(a, b) == a.num * b.den < b.num * a.den
ScoreLeq(a, b) == a.num * b.den <= b.num * a.den
Zero == Double(0, 1)
MinusOne == Double(-1, 1)

\* ------------------------------------------------------------------ replies
\* One record per RedisModule_ReplyWith* call.
Ev(type, n, str, score) == [type |-> type, n |-> n, str |-> str, score |-> score]
ReplyWithArray(n) == Ev("array", n, <<>>, Zero)
ReplyWithPostponedArray == Ev("postponed", 0, <<>>, Zero)
ReplyWithStringBuffer(s) == Ev("string", 0, s, Zero)
ReplyWithDouble(d) == Ev("double", 0, <<>>, d)
ReplyWithLongLong(n) == Ev("longlong", n, <<>>, Zero)
ReplyWithError(s) == Ev("error", 0, s, Zero)
ReplySetArrayLength(n) == Ev("setlen", n, <<>>, Zero)

TERM == <<"TERM">>
NO_SUGGESTIONS_REPLY == <<"no spelling corrections found">>
DictErrorMessage(dict) == <<"the given dict are not exists: ", dict>>

VARIABLES
  includeDict,    \* scCtx->includeDict: sequence of dictionary names
  excludeDict,    \* scCtx->excludeDict: sequence of dictionary names
  distance,       \* scCtx->distance
  fullScoreInfo,  \* scCtx->fullScoreInfo
  terms,          \* scCtx->sctx->spec->terms: the term trie, as its set of terms
  docsSize,       \* scCtx->sctx->spec->docs.size (counts the reserved document)
  invidx,         \* key space: the inverted index of every term that has one
  dicts,          \* key space: the trie (set of terms) of every dictionary there is
  q,              \* the parsed query: [root, node]
  pc,             \* position of the request in SpellCheck_Reply
  nodes,          \* the work list of SpellCheck_Reply
  results,        \* the result counter of SpellCheck_Reply
  reply,          \* every reply call made so far, in order
  calls,          \* history: one record per SpellCheck_ReplyTermSuggestions call
  deleted,        \* history: dictionaries deleted while the request ran
  keys            \* history: every open and close of a dictionary key, in order

vars == <<includeDict, excludeDict, distance, fullScoreInfo, terms, docsSize,
          invidx, dicts, q, pc, nodes, results, reply, calls, deleted, keys>>

\* ------------------------------------------------------------------ helpers
Min2(a, b) == IF a < b THEN a ELSE b

Range(s) == {s[i] : i \in 1..Len(s)}

\* every order in which the elements of S can be enumerated
Orderings(S) ==
  {f \in [1..Cardinality(S) -> S] : \A i, j \in 1..Cardinality(S) : f[i] = f[j] => i = j}

\* every rearrangement of the sequence s
Rearrangements(s) ==
  {[i \in 1..Len(s) |-> s[p[i]]] : p \in Orderings(1..Len(s))}

\* ------------------------------------------------------------------ trie
\* minimum number of single-character edits turning a into b
EditDistance(a, b) ==
  LET d[i \in 0..Len(a), j \in 0..Len(b)] ==
        IF i = 0 THEN j
        ELSE IF j = 0 THEN i
        ELSE Min2(Min2(d[i - 1, j] + 1, d[i, j - 1] + 1),
                  d[i - 1, j - 1] + (IF a[i] = b[j] THEN 0 ELSE 1))
  IN d[Len(a), Len(b)]

Distances == [a \in Terms, b \in Terms |-> EditDistance(a, b)]

\* the terms a bounded edit-distance iteration over trie t yields for term
Trie_Matches(t, term, maxDist) == {c \in t : Distances[term, c] <= maxDist}

\* the sequences TrieIterator_Next can yield, one per order of enumeration
Trie_Iterate(t, term, maxDist) == Orderings(Trie_Matches(t, term, maxDist))

Trie_InsertStringBuffer(t, term) == t \cup {term}

SpellCheck_OpenDict(dict) == IF dict \in DOMAIN dicts THEN <<dicts[dict]>> ELSE NULL

Redis_OpenInvertedIndexEx(term) == IF term \in DOMAIN invidx THEN <<invidx[term]>> ELSE NULL

\* does a reader over idx restricted to fieldMask yield at least one result
ReaderHasResult(idx, fieldMask) == idx.fields \cap fieldMask # {}

\* ------------------------------------------------------------------ suggestions
\* The buffers runesToStr allocates are numbered in the order of allocation; a
\* char * is the pair of a buffer and its content, and heap[b] counts how many
\* times buffer b has been freed.  The heap of one call travels with the
\* suggestion set of the call.
runesToStr(heap, rstr) == [buf |-> Len(heap) + 1, str |-> rstr]
malloc(heap) == Append(heap, 0)
free(heap, ptr) == [heap EXCEPT ![ptr.buf] = @ + 1]

RS_SuggestionCreate(suggestion, score) == [suggestion |-> suggestion, score |-> score]

\* frees the suggestion buffer of the suggestion
RS_SuggestionFree(heap, suggestion) == free(heap, suggestion.suggestion)

RS_SuggestionsCreate == [suggestionsTrie |-> {}, suggestions |-> <<>>, heap |-> <<>>]

SpellCheck_IsTermExistsInTrie(t, term) ==
  \E it \in Trie_Iterate(t, term, 0) : Len(it) > 0

RS_SuggestionsAdd_NoDedup(s, term, score) ==
  [suggestionsTrie |-> Trie_InsertStringBuffer(s.suggestionsTrie, term.str),
   suggestions |-> Append(s.suggestions, RS_SuggestionCreate(term, score)),
   heap |-> s.heap]
\* a term the set already holds is not added: the function returns, and term is
\* neither stored nor freed
RS_SuggestionsAdd(s, term, score) ==
  IF SpellCheck_IsTermExistsInTrie(s.suggestionsTrie, term.str)
  THEN s
  ELSE [suggestionsTrie |-> Trie_InsertStringBuffer(s.suggestionsTrie, term.str),
        suggestions |-> Append(s.suggestions, RS_SuggestionCreate(term, score)),
        heap |-> s.heap]

\* the heap after every stored suggestion was freed
RECURSIVE FreeAll(_, _)
FreeAll(heap, suggestions) ==
  IF suggestions = <<>> THEN heap
  ELSE FreeAll(RS_SuggestionFree(heap, Head(suggestions)), Tail(suggestions))

RS_SuggestionsFree(s) == FreeAll(s.heap, s.suggestions)

SpellCheck_GetScore_AllDocs(suggestion, fieldMask) ==
  LET idx == Redis_OpenInvertedIndexEx(suggestion) IN
  IF idx = NULL THEN Zero
  ELSE IF ReaderHasResult(idx[1], fieldMask)
       THEN IF fullScoreInfo
            THEN Double(idx[1].numDocs, 1)
            ELSE Double(idx[1].numDocs, docsSize)
       ELSE MinusOne
SpellCheck_GetScore_FilteredIsZero(suggestion, fieldMask) ==
  LET idx == Redis_OpenInvertedIndexEx(suggestion) IN
  IF idx = NULL THEN Zero
  ELSE IF ReaderHasResult(idx[1], fieldMask)
       THEN IF fullScoreInfo
            THEN Double(idx[1].numDocs, 1)
            ELSE Double(idx[1].numDocs, docsSize - 1)
       ELSE Zero
SpellCheck_GetScore_MissingIsFiltered(suggestion, fieldMask) ==
  LET idx == Redis_OpenInvertedIndexEx(suggestion) IN
  IF idx = NULL THEN MinusOne
  ELSE IF ReaderHasResult(idx[1], fieldMask)
       THEN IF fullScoreInfo
            THEN Double(idx[1].numDocs, 1)
            ELSE Double(idx[1].numDocs, docsSize - 1)
       ELSE MinusOne
SpellCheck_GetScore(suggestion, fieldMask) ==
  LET idx == Redis_OpenInvertedIndexEx(suggestion) IN
  IF idx = NULL THEN Zero
  ELSE IF ReaderHasResult(idx[1], fieldMask)
       THEN IF fullScoreInfo
            THEN Double(idx[1].numDocs, 1)
            ELSE Double(idx[1].numDocs, docsSize - 1)
       ELSE MinusOne

\* the loop of SpellCheck_FindSuggestions over the candidates `it` yields
RECURSIVE FindSuggestionsLoop(_, _, _)
FindSuggestionsLoop(it, fieldMask, s) ==
  IF it = <<>> THEN s
  ELSE LET res == runesToStr(s.heap, Head(it))
           s1 == [s EXCEPT !.heap = malloc(@)]
           score == SpellCheck_GetScore(res.str, fieldMask)
       IN FindSuggestionsLoop(Tail(it), fieldMask,
            IF ~ScoreEq(score, MinusOne)
            THEN RS_SuggestionsAdd(s1, res, score)
            ELSE [s1 EXCEPT !.heap = free(@, res)])

\* the sets the call can leave behind, one per order of enumeration
SpellCheck_FindSuggestions_Exact(t, term, fieldMask, s) ==
  {FindSuggestionsLoop(it, fieldMask, s) : it \in Trie_Iterate(t, term, 0)}
SpellCheck_FindSuggestions_Wider(t, term, fieldMask, s) ==
  {FindSuggestionsLoop(it, fieldMask, s) : it \in Trie_Iterate(t, term, distance + 1)}
SpellCheck_FindSuggestions(t, term, fieldMask, s) ==
  {FindSuggestionsLoop(it, fieldMask, s) : it \in Trie_Iterate(t, term, distance)}

\* qsort over the array of RS_Suggestion pointers with RS_SuggestionCompare.
\* The comparator is handed pointers to the array slots and reads them as
\* RS_Suggestion objects: what it compares are bytes of the pointer array, not
\* the score fields, so the resulting order does not depend on the scores.
qsort(suggestions) == Rearrangements(suggestions)

\* the exclude-list loop from position i on: TRUE when an exclude dictionary
\* that opens holds term
RECURSIVE ExcludeLoop(_, _)
ExcludeLoop(i, term) ==
  IF i > Len(excludeDict) THEN FALSE
  ELSE LET t == SpellCheck_OpenDict(excludeDict[i]) IN
       IF t = NULL THEN ExcludeLoop(i + 1, term)
       ELSE IF SpellCheck_IsTermExistsInTrie(t[1], term) THEN TRUE
       ELSE ExcludeLoop(i + 1, term)

\* a dictionary key that opened, and its RedisModule_CloseKey
OpenKey(dict) == [op |-> "open", dict |-> dict]
RedisModule_CloseKey(dict) == [op |-> "close", dict |-> dict]

\* the opens and closes of dictionary keys the exclude-list loop makes from
\* position i on
RECURSIVE ExcludeLoopKeys_ReturnOpen(_, _)
ExcludeLoopKeys_ReturnOpen(i, term) ==
  IF i > Len(excludeDict) THEN <<>>
  ELSE LET t == SpellCheck_OpenDict(excludeDict[i]) IN
       IF t = NULL THEN ExcludeLoopKeys_ReturnOpen(i + 1, term)
       ELSE IF SpellCheck_IsTermExistsInTrie(t[1], term)
       THEN <<OpenKey(excludeDict[i])>>
       ELSE <<OpenKey(excludeDict[i]), RedisModule_CloseKey(excludeDict[i])>>
            \o ExcludeLoopKeys_ReturnOpen(i + 1, term)
RECURSIVE ExcludeLoopKeys(_, _)
ExcludeLoopKeys(i, term) ==
  IF i > Len(excludeDict) THEN <<>>
  ELSE LET t == SpellCheck_OpenDict(excludeDict[i]) IN
       IF t = NULL THEN ExcludeLoopKeys(i + 1, term)
       ELSE IF SpellCheck_IsTermExistsInTrie(t[1], term)
       THEN <<OpenKey(excludeDict[i]), RedisModule_CloseKey(excludeDict[i])>>
       ELSE <<OpenKey(excludeDict[i]), RedisModule_CloseKey(excludeDict[i])>>
            \o ExcludeLoopKeys(i + 1, term)

\* the opens and closes of dictionary keys the include-list loop makes from
\* position i on; SpellCheck_FindSuggestions runs between the two
RECURSIVE IncludeLoopKeys(_)
IncludeLoopKeys(i) ==
  IF i > Len(includeDict) THEN <<>>
  ELSE LET t == SpellCheck_OpenDict(includeDict[i]) IN
       IF t = NULL THEN IncludeLoopKeys(i + 1)
       ELSE <<OpenKey(includeDict[i]), RedisModule_CloseKey(includeDict[i])>>
            \o IncludeLoopKeys(i + 1)

\* the include-list loop from position i on, over every set S it may start from
RECURSIVE IncludeLoop_Break(_, _, _, _)
IncludeLoop_Break(i, term, fieldMask, S) ==
  IF i > Len(includeDict) THEN S
  ELSE LET t == SpellCheck_OpenDict(includeDict[i]) IN
       IF t = NULL THEN S
       ELSE IncludeLoop_Break(i + 1, term, fieldMask,
              UNION {SpellCheck_FindSuggestions(t[1], term, fieldMask, s) : s \in S})
RECURSIVE IncludeLoop(_, _, _, _)
IncludeLoop(i, term, fieldMask, S) ==
  IF i > Len(includeDict) THEN S
  ELSE LET t == SpellCheck_OpenDict(includeDict[i]) IN
       IF t = NULL THEN IncludeLoop(i + 1, term, fieldMask, S)
       ELSE IncludeLoop(i + 1, term, fieldMask,
              UNION {SpellCheck_FindSuggestions(t[1], term, fieldMask, s) : s \in S})

RECURSIVE ReplyPairs(_)
ReplyPairs(suggestions) ==
  IF suggestions = <<>> THEN <<>>
  ELSE <<ReplyWithArray(2),
         ReplyWithDouble(Head(suggestions).score),
         ReplyWithStringBuffer(Head(suggestions).suggestion.str)>>
       \o ReplyPairs(Tail(suggestions))

\* the reply calls that end a term block
ReplySuggestions_EmptyArray(s) ==
  <<ReplyWithArray(Len(s.suggestions))>> \o ReplyPairs(s.suggestions)
ReplySuggestions(s) ==
  IF Len(s.suggestions) = 0
  THEN <<ReplyWithStringBuffer(NO_SUGGESTIONS_REPLY)>>
  ELSE <<ReplyWithArray(Len(s.suggestions))>> \o ReplyPairs(s.suggestions)

\* main-vocabulary enumeration followed by the sort
SortedMainSuggestions(term, fieldMask) ==
  UNION {{[s EXCEPT !.suggestions = sorted] : sorted \in qsort(s.suggestions)} :
         s \in SpellCheck_FindSuggestions(terms, term, fieldMask, RS_SuggestionsCreate)}

\* lines 139-141: the term is in the term trie
TermInVocabulary_Inverted(term) == ~SpellCheck_IsTermExistsInTrie(terms, term)
TermInVocabulary(term) == SpellCheck_IsTermExistsInTrie(terms, term)

\* lines 145-157: the term is in an exclude dictionary that opens
TermExcluded_FromSecond(term) == ExcludeLoop(2, term)
TermExcluded(term) == ExcludeLoop(1, term)

\* what one call can return, emit, leave on the heap and do to dictionary keys:
\* [ret, out, heap, keys]
SpellCheck_ReplyTermSuggestions(term, fieldMask) ==
  IF TermInVocabulary(term)
  THEN {[ret |-> FALSE, out |-> <<>>, heap |-> <<>>, keys |-> <<>>]}
  ELSE IF TermExcluded(term)
  THEN {[ret |-> FALSE, out |-> <<>>, heap |-> <<>>, keys |-> ExcludeLoopKeys(1, term)]}
  ELSE {[ret |-> TRUE,
         keys |-> ExcludeLoopKeys(1, term) \o IncludeLoopKeys(1),
         out |-> <<ReplyWithArray(3), ReplyWithStringBuffer(TERM),
                   ReplyWithStringBuffer(term)>> \o ReplySuggestions(s),
         heap |-> RS_SuggestionsFree(s)] :
        s \in IncludeLoop(1, term, fieldMask, SortedMainSuggestions(term, fieldMask))}

\* ------------------------------------------------------------------ validation
SpellCheck_CheckDictExistence(dict) == SpellCheck_OpenDict(dict) # NULL

\* the dictionaries in the order SpellCheck_CheckTermDictsExistance opens them
CheckedDicts_IncludeOnly == includeDict
CheckedDicts == includeDict \o excludeDict

\* position in CheckedDicts of the first dictionary that fails to open, 0 if none
FirstMissing ==
  IF \A i \in 1..Len(CheckedDicts) : SpellCheck_CheckDictExistence(CheckedDicts[i])
  THEN 0
  ELSE CHOOSE i \in 1..Len(CheckedDicts) :
         /\ ~SpellCheck_CheckDictExistence(CheckedDicts[i])
         /\ \A j \in 1..(i - 1) : SpellCheck_CheckDictExistence(CheckedDicts[j])

SpellCheck_CheckTermDictsExistance == FirstMissing = 0

\* the opens and closes of dictionary keys validation makes from position i of
\* CheckedDicts on: it stops at the first dictionary that does not open
RECURSIVE CheckDictsKeys(_)
CheckDictsKeys(i) ==
  IF i > Len(CheckedDicts) \/ ~SpellCheck_CheckDictExistence(CheckedDicts[i]) THEN <<>>
  ELSE <<OpenKey(CheckedDicts[i]), RedisModule_CloseKey(CheckedDicts[i])>>
       \o CheckDictsKeys(i + 1)

\* ------------------------------------------------------------------ query trees
Token(term, mask) ==
  [type |-> "QN_TOKEN", children |-> <<>>, str |-> term, fieldMask |-> mask]
Inner(type, children) ==
  [type |-> type, children |-> children, str |-> <<>>, fieldMask |-> {}]
Leaf(type) == Inner(type, <<>>)

ChildrenKinds == {"QN_PHRASE", "QN_UNION", "QN_TAG"}
ChildKinds == {"QN_NOT", "QN_OPTIONAL"}
SkippedKinds == {"QN_PREFX", "QN_NUMERIC", "QN_GEO", "QN_IDS", "QN_WILDCARD", "QN_FUZZY"}

SingleTokenQueries ==
  {[root |-> 1, node |-> <<Token(t, m)>>] : t \in {helo, hello, help}, m \in FieldMasks}

PhraseQueries ==
  {[root |-> 1,
    node |-> <<Inner("QN_PHRASE", <<2, 3>>), Token(helo, m), Token(hello, {1, 2})>>] :
   m \in FieldMasks}

NestedQuery ==
  [root |-> 1,
   node |-> <<Inner("QN_UNION", <<2, 3, 4, 5>>),
              Inner("QN_NOT", <<6>>),
              Inner("QN_OPTIONAL", <<7>>),
              Inner("QN_TAG", <<8, 9>>),
              Inner("QN_PHRASE", <<10, 11, 12, 13>>),
              Token(help, {1, 2}),
              Leaf("QN_PREFX"),
              Token(helo, {1}),
              Leaf("QN_NUMERIC"),
              Leaf("QN_GEO"),
              Leaf("QN_IDS"),
              Leaf("QN_WILDCARD"),
              Leaf("QN_FUZZY")>>]

Queries == SingleTokenQueries \cup PhraseQueries \cup {NestedQuery}

\* ------------------------------------------------------------------ initial states
PostingFields == {{1}, {2}}

\* the sizes of the document table: one real document, or MaxDocs of them
DocTableSizes == {2, MaxDocs + 1}

\* the inverted indexes of a corpus of size - 1 real documents: a term of the
\* corpus is in one document or in all of them
InvertedIndexes(size) ==
  UNION {[V -> [numDocs : {1, size - 1}, fields : PostingFields]] : V \in SUBSET IndexTerms}

DictContents == [d1 |-> {helo, held}, d2 |-> {help, held}]

\* the key spaces: any subset of the dictionaries is there
DictSpaces == {[d \in D |-> DictContents[d]] : D \in SUBSET DictNames}

DictConfigs ==
  {[include |-> <<>>, exclude |-> <<>>],
   [include |-> <<"d1">>, exclude |-> <<"d2">>],
   [include |-> <<"d1", "d2">>, exclude |-> <<>>],
   [include |-> <<>>, exclude |-> <<"d1", "d2">>]}

Init ==
  /\ \E c \in DictConfigs :
       /\ includeDict = c.include
       /\ excludeDict = c.exclude
       /\ dicts \in {ds \in DictSpaces : DOMAIN ds \subseteq Range(c.include \o c.exclude)}
  /\ distance \in 1..MaxDistance
  /\ fullScoreInfo \in BOOLEAN
  /\ docsSize \in DocTableSizes
  /\ invidx \in InvertedIndexes(docsSize)
  /\ terms = DOMAIN invidx
  /\ q \in Queries
  /\ pc = "start"
  /\ nodes = <<>>
  /\ results = 0
  /\ reply = <<>>
  /\ calls = <<>>
  /\ deleted = {}
  /\ keys = <<>>

\* ------------------------------------------------------------------ actions
config == <<includeDict, excludeDict, distance, fullScoreInfo>>
index == <<terms, docsSize, invidx>>

\* SpellCheck_Reply, lines 232-234: a configured dictionary does not open
DictMissing ==
  /\ pc = "start"
  /\ ~SpellCheck_CheckTermDictsExistance
  /\ reply' = Append(reply, ReplyWithError(DictErrorMessage(CheckedDicts[FirstMissing])))
  /\ pc' = "done"
  /\ UNCHANGED <<config, index, dicts, q, nodes, results, calls, deleted>>
  /\ keys' = keys \o CheckDictsKeys(1)

\* lines 243-246: the total number of documents, in full mode
TotalDocsReply_WithReserved ==
  IF fullScoreInfo THEN <<ReplyWithLongLong(docsSize)>> ELSE <<>>
TotalDocsReply ==
  IF fullScoreInfo THEN <<ReplyWithLongLong(docsSize - 1)>> ELSE <<>>

\* line 297: the length the envelope is closed with
EnvelopeLength_ResultsOnly == results
EnvelopeLength == results + (IF fullScoreInfo THEN 1 ELSE 0)

\* SpellCheck_Reply, lines 232-246: every dictionary opens; the envelope is begun
BeginReply ==
  /\ pc = "start"
  /\ SpellCheck_CheckTermDictsExistance
  /\ results' = 0
  /\ nodes' = <<q.root>>
  /\ reply' = reply \o <<ReplyWithPostponedArray>> \o TotalDocsReply
  /\ pc' = "traverse"
  /\ UNCHANGED <<config, index, dicts, q, calls, deleted>>
  /\ keys' = keys \o CheckDictsKeys(1)

currNode == q.node[nodes[Len(nodes)]]
array_pop(a) == SubSeq(a, 1, Len(a) - 1)

\* QN_PHRASE, QN_UNION, QN_TAG: every child is pushed
VisitChildren_FromSecond ==
  /\ pc = "traverse" /\ Len(nodes) > 0
  /\ currNode.type \in ChildrenKinds
  /\ nodes' = array_pop(nodes) \o Tail(currNode.children)
  /\ UNCHANGED <<config, index, dicts, q, pc, results, reply, calls, deleted, keys>>
VisitChildren ==
  /\ pc = "traverse" /\ Len(nodes) > 0
  /\ currNode.type \in ChildrenKinds
  /\ nodes' = array_pop(nodes) \o currNode.children
  /\ UNCHANGED <<config, index, dicts, q, pc, results, reply, calls, deleted, keys>>

\* QN_NOT, QN_OPTIONAL: the child is pushed
VisitChild ==
  /\ pc = "traverse" /\ Len(nodes) > 0
  /\ currNode.type \in ChildKinds
  /\ nodes' = Append(array_pop(nodes), currNode.children[1])
  /\ UNCHANGED <<config, index, dicts, q, pc, results, reply, calls, deleted, keys>>

\* the number of buffers of the heap never freed, and freed more than once
Leaked(heap) == Cardinality({b \in DOMAIN heap : heap[b] = 0})
DoubleFreed(heap) == Cardinality({b \in DOMAIN heap : heap[b] > 1})

\* QN_TOKEN: the term is handed to SpellCheck_ReplyTermSuggestions
VisitToken ==
  /\ pc = "traverse" /\ Len(nodes) > 0
  /\ currNode.type = "QN_TOKEN"
  /\ \E o \in SpellCheck_ReplyTermSuggestions(currNode.str, currNode.fieldMask) :
       /\ reply' = reply \o o.out
       /\ keys' = keys \o o.keys
       /\ results' = IF o.ret THEN results + 1 ELSE results
       /\ calls' = Append(calls, [node |-> nodes[Len(nodes)],
                                  term |-> currNode.str,
                                  fieldMask |-> currNode.fieldMask,
                                  ret |-> o.ret,
                                  lo |-> Len(reply) + 1,
                                  hi |-> Len(reply) + Len(o.out),
                                  dicts |-> dicts,
                                  allocated |-> Len(o.heap),
                                  leaked |-> Leaked(o.heap),
                                  doubleFreed |-> DoubleFreed(o.heap)])
  /\ nodes' = array_pop(nodes)
  /\ UNCHANGED <<config, index, dicts, q, pc, deleted>>

\* QN_PREFX, QN_NUMERIC, QN_GEO, QN_IDS, QN_WILDCARD, QN_FUZZY: nothing to correct
VisitSkipped_NoPop ==
  /\ pc = "traverse" /\ Len(nodes) > 0
  /\ currNode.type \in SkippedKinds
  /\ nodes' = nodes
  /\ UNCHANGED <<config, index, dicts, q, pc, results, reply, calls, deleted, keys>>
VisitSkipped ==
  /\ pc = "traverse" /\ Len(nodes) > 0
  /\ currNode.type \in SkippedKinds
  /\ nodes' = array_pop(nodes)
  /\ UNCHANGED <<config, index, dicts, q, pc, results, reply, calls, deleted, keys>>

\* SpellCheck_Reply, lines 295-297: the work list is empty; the envelope is closed
EndReply ==
  /\ pc = "traverse" /\ Len(nodes) = 0
  /\ reply' = Append(reply, ReplySetArrayLength(EnvelopeLength))
  /\ pc' = "done"
  /\ UNCHANGED <<config, index, dicts, q, nodes, results, calls, deleted, keys>>

\* Another client deletes a dictionary while the request is served.  The request
\* reads the key space at validation and in the lookups of a token only, so a
\* deletion is taken at the point where it is first observed: after validation,
\* right before the lookups of a token.
DictDeleted ==
  /\ pc = "traverse" /\ Len(nodes) > 0
  /\ currNode.type = "QN_TOKEN"
  /\ \E d \in DOMAIN dicts :
       /\ dicts' = [x \in DOMAIN dicts \ {d} |-> dicts[x]]
       /\ deleted' = deleted \cup {d}
  /\ UNCHANGED <<config, index, q, pc, nodes, results, reply, calls, keys>>

Next ==
  \/ DictMissing
  \/ BeginReply
  \/ VisitChildren
  \/ VisitChild
  \/ VisitToken
  \/ VisitSkipped
  \/ EndReply
  \/ DictDeleted

Spec == Init /\ [][Next]_vars

\* a step of the request itself: SpellCheck_Reply runs to its end once called,
\* whatever other clients do to the key space
RequestStep ==
  \/ DictMissing
  \/ BeginReply
  \/ VisitChildren
  \/ VisitChild
  \/ VisitToken
  \/ VisitSkipped
  \/ EndReply

\* the requests the progress of SpellCheck_Reply is checked on: the queries with
\* inner nodes, over a corpus of one document that holds help and held
FairInit ==
  /\ Init
  /\ docsSize = 2
  /\ terms = {help, held}
  /\ Len(q.node) > 1

FairSpec == FairInit /\ [][Next]_vars /\ WF_vars(RequestStep)

\* ------------------------------------------------------------------ reading the reply
Last(r) == r[Len(r)]

\* the number of reply calls that make up the element starting at position i
RECURSIVE ElemSize(_, _), ChildrenSize(_, _, _)
ElemSize(r, i) ==
  IF i <= Len(r) /\ r[i].type = "array" THEN 1 + ChildrenSize(r, i + 1, r[i].n) ELSE 1
ChildrenSize(r, i, n) ==
  IF n <= 0 THEN 0
  ELSE LET e == ElemSize(r, i) IN e + ChildrenSize(r, i + e, n - 1)

\* the number of elements laid end to end from position i to position hi
RECURSIVE CountElems(_, _, _)
CountElems(r, i, hi) ==
  IF i > hi THEN 0 ELSE 1 + CountElems(r, i + ElemSize(r, i), hi)

EnvelopeOpened == reply # <<>> /\ reply[1].type = "postponed"
EnvelopeClosed == EnvelopeOpened /\ Last(reply).type = "setlen"

\* the calls that emitted a term block
Blocks == {k \in 1..Len(calls) : calls[k].ret}
EmittedNothing(c) == ~c.ret /\ c.hi = c.lo - 1

\* the (score, term) pairs of the term block of call c, in emitted order
HasList(c) == c.ret /\ c.hi >= c.lo + 3 /\ reply[c.lo + 3].type = "array"
NumPairs(c) == IF HasList(c) THEN (c.hi - (c.lo + 3)) \div 3 ELSE 0
PairScore(c, i) == reply[c.lo + 3 * i + 2].score
PairTerm(c, i) == reply[c.lo + 3 * i + 3].str
EmittedTerms(c) == {PairTerm(c, i) : i \in 1..NumPairs(c)}

\* what the key space held when call c was made
OpenedBy(c, dict) == dict \in DOMAIN c.dicts
InExcludeDict(c) ==
  \E i \in 1..Len(excludeDict) :
     OpenedBy(c, excludeDict[i]) /\ c.term \in c.dicts[excludeDict[i]]

\* a term's documents, and whether the field mask leaves any of them
DocCount(t) == IF t \in DOMAIN invidx THEN invidx[t].numDocs ELSE 0
Relevant(t, mask) == t \in DOMAIN invidx /\ invidx[t].fields \cap mask # {}
FilteredOut(t, mask) == t \in DOMAIN invidx /\ invidx[t].fields \cap mask = {}

WithinDistance(t, term) == Distances[term, t] <= distance

\* ------------------------------------------------------------------ C1
\* C1: in every emitted term block the suggestions are in score-ascending
\* order: no suggestion's score is greater than the score of the next one.
C1_ScoreAscending ==
  \A k \in Blocks :
    \A i \in 1..(NumPairs(calls[k]) - 1) :
      ScoreLeq(PairScore(calls[k], i), PairScore(calls[k], i + 1))

\* ------------------------------------------------------------------ C2
\* C2: when the envelope is closed, the declared length is the number of
\* top-level elements emitted since it was opened, which is one per token whose
\* call returned true (the token was neither in the term trie nor in an exclude
\* dictionary that opened), plus one for the total-docs integer in full mode.
C2_EnvelopeCount ==
  EnvelopeClosed =>
    /\ Last(reply).n = CountElems(reply, 2, Len(reply) - 1)
    /\ Last(reply).n = Cardinality(Blocks) + (IF fullScoreInfo THEN 1 ELSE 0)
    /\ \A k \in 1..Len(calls) :
         calls[k].ret <=> (calls[k].term \notin terms /\ ~InExcludeDict(calls[k]))

\* C2 witness: AND(helo, hello) with hello alone in the vocabulary was answered
\* in ratio mode with one term block, for helo, and a declared length of 1.
C2_Witness ==
  /\ EnvelopeClosed /\ ~fullScoreInfo
  /\ q \in PhraseQueries
  /\ terms = {hello}
  /\ Len(calls) = 2
  /\ \E k \in 1..2 : calls[k].term = helo /\ calls[k].ret
  /\ \E k \in 1..2 : calls[k].term = hello /\ ~calls[k].ret
  /\ Last(reply).n = 1

\* ------------------------------------------------------------------ C3
\* a configured dictionary that was not there when the request started
MissingAtStart(d) ==
  d \in Range(includeDict \o excludeDict) /\ d \notin DOMAIN dicts /\ d \notin deleted

\* C3: if a configured dictionary does not exist when the request starts, the
\* request reports exactly one error, naming a missing dictionary, and nothing
\* else: no envelope, no integer, no term block, and no node is visited.
C3_MissingDictAborts ==
  (\E d \in DictNames : MissingAtStart(d)) =>
    /\ calls = <<>> /\ nodes = <<>> /\ results = 0
    /\ \/ pc = "start" /\ reply = <<>>
       \/ /\ pc = "done"
          /\ Len(reply) = 1
          /\ reply[1].type = "error"
          /\ \E d \in DictNames : MissingAtStart(d) /\ reply[1].str = DictErrorMessage(d)

\* C3 witness: a request ended with the error for a missing exclude dictionary
\* while its include dictionary was there.
C3_Witness ==
  /\ pc = "done"
  /\ includeDict = <<"d1">> /\ "d1" \in DOMAIN dicts
  /\ reply = <<ReplyWithError(DictErrorMessage("d2"))>>

\* ------------------------------------------------------------------ C4
\* C4: for a term that is in the main vocabulary the call returns false and
\* emits nothing, whatever the dictionaries hold.
C4_KnownTermSilent ==
  \A k \in 1..Len(calls) :
    calls[k].term \in terms => EmittedNothing(calls[k])

\* C4 witness: a call for a term of the vocabulary was made while an include
\* dictionary that opened held terms within the distance of it.
C4_Witness ==
  \E k \in 1..Len(calls) :
    /\ calls[k].term \in terms
    /\ \E i \in 1..Len(includeDict) :
         /\ OpenedBy(calls[k], includeDict[i])
         /\ \E t \in calls[k].dicts[includeDict[i]] : WithinDistance(t, calls[k].term)

\* ------------------------------------------------------------------ C5
\* C5: for a term that is in an exclude dictionary that opens the call returns
\* false and emits nothing, whatever fuzzy matches the vocabulary holds.
C5_ExcludedTermSilent ==
  \A k \in 1..Len(calls) :
    InExcludeDict(calls[k]) => EmittedNothing(calls[k])

\* C5 witness: a call for a term that is not in the vocabulary but is in the
\* second exclude dictionary, the first one holding other terms only, was made
\* while the vocabulary held a relevant term within the distance.
C5_Witness ==
  \E k \in 1..Len(calls) :
    /\ calls[k].term \notin terms
    /\ Len(excludeDict) = 2
    /\ OpenedBy(calls[k], excludeDict[1])
    /\ calls[k].term \notin calls[k].dicts[excludeDict[1]]
    /\ OpenedBy(calls[k], excludeDict[2])
    /\ calls[k].term \in calls[k].dicts[excludeDict[2]]
    /\ \E t \in terms : WithinDistance(t, calls[k].term) /\ Relevant(t, calls[k].fieldMask)

\* ------------------------------------------------------------------ C6
\* the first producer of candidate t in call c: 0 for the main vocabulary, i for
\* the i-th include dictionary, and one more than their number if none holds it
\* within the distance
Produces(c, i, t) ==
  /\ WithinDistance(t, c.term)
  /\ IF i = 0 THEN t \in terms
     ELSE OpenedBy(c, includeDict[i]) /\ t \in c.dicts[includeDict[i]]
Producer(c, t) ==
  IF \E i \in 0..Len(includeDict) : Produces(c, i, t)
  THEN CHOOSE i \in 0..Len(includeDict) :
         Produces(c, i, t) /\ \A j \in 0..(i - 1) : ~Produces(c, j, t)
  ELSE Len(includeDict) + 1

\* the candidates of call c that are to be emitted
Eligible(c) ==
  {t \in Terms : Producer(c, t) <= Len(includeDict) /\ ~FilteredOut(t, c.fieldMask)}

\* the score a term is stored with
StoredScore(t) ==
  IF t \in DOMAIN invidx
  THEN Double(invidx[t].numDocs, IF fullScoreInfo THEN 1 ELSE docsSize - 1)
  ELSE Zero

\* C6: no two suggestions of a set share a term: every candidate within the
\* distance whose score is not 'exclude' is emitted exactly once, the candidates
\* lie in the order of their earliest producers (main vocabulary, then the
\* include dictionaries in configured order), and a duplicate from a later
\* producer changes neither the sequence nor a stored score.
C6_NoDuplicateTerms ==
  \A k \in Blocks :
    LET c == calls[k] IN
    /\ \A i, j \in 1..NumPairs(c) : PairTerm(c, i) = PairTerm(c, j) => i = j
    /\ \A t \in Eligible(c) : Cardinality({i \in 1..NumPairs(c) : PairTerm(c, i) = t}) = 1
    /\ \A i, j \in 1..NumPairs(c) :
         i < j => Producer(c, PairTerm(c, i)) <= Producer(c, PairTerm(c, j))
    /\ \A i \in 1..NumPairs(c) : PairScore(c, i) = StoredScore(PairTerm(c, i))

\* C6 witness: a block was emitted in which one term came from the main
\* vocabulary and again from an include dictionary, and another term came from
\* two include dictionaries.
C6_Witness ==
  \E k \in Blocks :
    LET c == calls[k] IN
    /\ Len(includeDict) = 2
    /\ \E t \in EmittedTerms(c) : Produces(c, 0, t) /\ Produces(c, 2, t)
    /\ \E t \in EmittedTerms(c) : ~Produces(c, 0, t) /\ Produces(c, 1, t) /\ Produces(c, 2, t)

\* ------------------------------------------------------------------ C7
\* C7: no emitted suggestion is the queried term itself, also when the term is
\* not in the main vocabulary but is in an include dictionary.
C7_NeverSuggestsItself ==
  \A k \in Blocks : calls[k].term \notin EmittedTerms(calls[k])

\* ------------------------------------------------------------------ C8
\* C8: in full mode the total-docs integer docs.size - 1 is emitted exactly
\* once, right after the envelope is opened and before any term block, and every
\* emitted score is the raw document count of its term; in ratio mode no such
\* integer is emitted.
C8_TotalDocsFirst ==
  /\ (fullScoreInfo /\ EnvelopeOpened) =>
       /\ Len(reply) >= 2
       /\ reply[2] = ReplyWithLongLong(docsSize - 1)
       /\ \A i \in 1..Len(reply) : reply[i].type = "longlong" => i = 2
       /\ \A k \in 1..Len(calls) : calls[k].lo > 2
  /\ fullScoreInfo =>
       \A k \in Blocks : \A i \in 1..NumPairs(calls[k]) :
         PairScore(calls[k], i) = Double(DocCount(PairTerm(calls[k], i)), 1)
  /\ ~fullScoreInfo => \A i \in 1..Len(reply) : reply[i].type # "longlong"

\* C8 witness: a full-mode request over a corpus of two real documents was
\* closed after emitting a suggestion whose term is in both documents.
C8_Witness ==
  /\ fullScoreInfo /\ EnvelopeClosed /\ docsSize = 3
  /\ \E k \in Blocks : \E i \in 1..NumPairs(calls[k]) :
       /\ DocCount(PairTerm(calls[k], i)) = 2
       /\ PairScore(calls[k], i).num = 2

\* ------------------------------------------------------------------ C9
\* the score of a relevant candidate with k documents, of T in the corpus
IsExpectedScore(sc, k, T) ==
  /\ IF fullScoreInfo THEN sc.num = k * sc.den ELSE sc.num * (T - 1) = k * sc.den
  /\ ~ScoreEq(sc, MinusOne)

\* C9: for a candidate whose posting list has k documents and whose filtered
\* reader yields a result, SpellCheck_GetScore returns k / (T - 1) in ratio mode
\* and k in full mode, T being docs.size, and never the 'exclude' value -1.
C9_ScoreValue ==
  /\ \A t \in Terms, m \in FieldMasks :
       Relevant(t, m) => IsExpectedScore(SpellCheck_GetScore(t, m), invidx[t].numDocs, docsSize)
  /\ \A k \in Blocks : \A i \in 1..NumPairs(calls[k]) :
       Relevant(PairTerm(calls[k], i), calls[k].fieldMask) =>
         IsExpectedScore(PairScore(calls[k], i), invidx[PairTerm(calls[k], i)].numDocs, docsSize)

\* C9 witness: in ratio mode, over a corpus of two real documents, a suggestion
\* whose term is in one of them was emitted.
C9_Witness ==
  /\ ~fullScoreInfo /\ docsSize = 3
  /\ \E k \in Blocks : \E i \in 1..NumPairs(calls[k]) :
       /\ Relevant(PairTerm(calls[k], i), calls[k].fieldMask)
       /\ DocCount(PairTerm(calls[k], i)) = 1
       /\ PairScore(calls[k], i) = Double(1, 2)

\* ------------------------------------------------------------------ C10
\* C10: the terms emitted for a misspelled term are exactly the terms within the
\* configured distance of it in the main vocabulary or in an include dictionary
\* that opens, less those whose score is 'exclude'.
C10_ExactlyTheCandidates ==
  \A k \in Blocks : EmittedTerms(calls[k]) = Eligible(calls[k])

\* C10 witness: a block with a suggestion was emitted while the vocabulary held
\* a term beyond the distance, and a term within it that the field mask
\* filtered out, and neither was emitted.
C10_Witness ==
  \E k \in Blocks :
    LET c == calls[k] IN
    /\ NumPairs(c) >= 1
    /\ \E t \in terms : ~WithinDistance(t, c.term) /\ t \notin EmittedTerms(c)
    /\ \E t \in terms :
         WithinDistance(t, c.term) /\ FilteredOut(t, c.fieldMask) /\ t \notin EmittedTerms(c)

\* ------------------------------------------------------------------ C11
\* the scenario: the vocabulary is exactly {hello, help, held}, no dictionary is
\* configured, the distance is 1 and call c is for the token helo
HeloScenario(c) ==
  /\ terms = {hello, help, held}
  /\ includeDict = <<>> /\ excludeDict = <<>>
  /\ distance = 1
  /\ c.term = helo

\* C11 as stated: in the scenario the candidates for helo are exactly help and
\* held, less those the field mask excludes; hello is at distance 2 and is not
\* enumerated.
C11_HelloNotEnumerated ==
  \A k \in 1..Len(calls) :
    HeloScenario(calls[k]) =>
      /\ calls[k].ret
      /\ Distances[helo, hello] = 2
      /\ EmittedTerms(calls[k]) = {t \in {help, held} : ~FilteredOut(t, calls[k].fieldMask)}

\* C11 as amended: in the scenario the candidates for helo are exactly hello,
\* help and held, less those the field mask excludes; hello is at distance 1
\* from helo (one insertion) and is enumerated.
C11_HelloEnumerated ==
  \A k \in 1..Len(calls) :
    HeloScenario(calls[k]) =>
      /\ calls[k].ret
      /\ Distances[helo, hello] = 1
      /\ EmittedTerms(calls[k]) =
           {t \in {hello, help, held} : ~FilteredOut(t, calls[k].fieldMask)}

\* C11 witness: in the scenario hello was emitted for helo while the field mask
\* excluded help.
C11_Witness ==
  \E k \in 1..Len(calls) :
    /\ HeloScenario(calls[k])
    /\ hello \in EmittedTerms(calls[k])
    /\ held \in EmittedTerms(calls[k])
    /\ FilteredOut(help, calls[k].fieldMask)
    /\ help \notin EmittedTerms(calls[k])

\* ------------------------------------------------------------------ C12
\* no include dictionary contributed a candidate to the block of call c
MainVocabularyOnly(c) == \A t \in EmittedTerms(c) : Produces(c, 0, t)

\* C12: when no include dictionary contributes candidates, the sort over the
\* main-vocabulary candidates leaves them ordered by score ascending, so the
\* emitted list is score-ascending.
C12_SortOrdersByScore ==
  \A k \in Blocks :
    MainVocabularyOnly(calls[k]) =>
      \A i \in 1..(NumPairs(calls[k]) - 1) :
        ScoreLeq(PairScore(calls[k], i), PairScore(calls[k], i + 1))

\* ------------------------------------------------------------------ C13
\* C13: every candidate buffer the enumeration allocates is released exactly
\* once: freed by the enumerator when the score excludes it, freed with the set
\* when it was accepted, freed on rejection when it was a duplicate; no buffer
\* is leaked and none is freed twice.
C13_BuffersReleasedOnce ==
  \A k \in 1..Len(calls) : calls[k].leaked = 0 /\ calls[k].doubleFreed = 0
\* ------------------------------------------------------------------ C14
\* the token nodes of the tree under node n, by descent through the kinds that
\* have children
RECURSIVE TokensUnder(_)
TokensUnder(n) ==
  IF q.node[n].type = "QN_TOKEN" THEN {n}
  ELSE UNION {TokensUnder(q.node[n].children[i]) : i \in DOMAIN q.node[n].children}

\* the nodes handed to the suggestion step so far
Handed == {calls[k].node : k \in 1..Len(calls)}

\* C14: every token node reachable from the root through phrase, union, tag,
\* negation and optional nodes is handed to the suggestion step exactly once; no
\* prefix, numeric, geo, id-list, wildcard or fuzzy node is ever handed; and the
\* counter of results goes up by one for each call that returns true.
C14_EveryTokenOnce ==
  /\ \A k \in 1..Len(calls) :
       /\ q.node[calls[k].node].type = "QN_TOKEN"
       /\ q.node[calls[k].node].type \notin SkippedKinds
       /\ calls[k].term = q.node[calls[k].node].str
       /\ calls[k].fieldMask = q.node[calls[k].node].fieldMask
       /\ \A j \in 1..Len(calls) : calls[j].node = calls[k].node => j = k
  /\ Handed \subseteq TokensUnder(q.root)
  /\ results = Cardinality(Blocks)
  /\ EnvelopeClosed => Handed = TokensUnder(q.root)

\* C14 witness: the traversal of a tree with skipped kinds and two tokens under
\* different parents is over, one call returned true and one returned false.
C14_Witness ==
  /\ EnvelopeClosed
  /\ \E n \in DOMAIN q.node : q.node[n].type \in SkippedKinds
  /\ Len(calls) = 2 /\ results = 1
  /\ \E k \in 1..Len(calls) : ~calls[k].ret

\* ------------------------------------------------------------------ C15
CountType(type) == Cardinality({i \in DOMAIN reply : reply[i].type = type})

\* the envelope is opened at most once and first, closed at most once and last,
\* after the last term block, and no error is emitted once it is open
EnvelopeWellFormed ==
  /\ CountType("postponed") <= 1
  /\ CountType("setlen") <= 1
  /\ CountType("postponed") = 1 => reply[1].type = "postponed"
  /\ CountType("setlen") = 1 =>
       /\ Last(reply).type = "setlen"
       /\ EnvelopeOpened
       /\ pc = "done" /\ nodes = <<>>
       /\ \A k \in 1..Len(calls) : calls[k].hi < Len(reply)
  /\ EnvelopeOpened => CountType("error") = 0
  /\ pc = "traverse" => EnvelopeOpened /\ CountType("setlen") = 0

\* C15: a request that passes validation opens the envelope exactly once,
\* eventually empties the work list and closes the envelope exactly once, after
\* the last term block; nothing aborts the reply in between.
C15_EnvelopeEventuallyClosed ==
  /\ []EnvelopeWellFormed
  /\ (pc = "start" /\ SpellCheck_CheckTermDictsExistance) ~> (pc = "traverse")
  /\ (pc = "traverse") ~> (pc = "done" /\ nodes = <<>> /\ EnvelopeClosed)

\* C15 witness: the envelope of the nested query was closed after a term block,
\* with a dictionary deleted on the way.
C15_Witness ==
  /\ EnvelopeClosed /\ pc = "done"
  /\ Len(q.node) > 3
  /\ Blocks # {}
  /\ deleted # {}

\* ------------------------------------------------------------------ C16
\* C16: a dictionary deleted after validation is skipped, for the terms looked
\* up after the deletion only: no error is emitted once the envelope is open,
\* every term still gets the block its remaining sources give, the traversal
\* goes on to every token, and the envelope is closed with the number of blocks
\* (plus one in full mode).
C16_DeletedDictSkipped ==
  deleted # {} =>
    /\ EnvelopeOpened /\ CountType("error") = 0
    /\ \A k \in 1..Len(calls) :
         /\ calls[k].ret <=> (calls[k].term \notin terms /\ ~InExcludeDict(calls[k]))
         /\ calls[k].ret => EmittedTerms(calls[k]) = Eligible(calls[k])
         /\ ~calls[k].ret => EmittedNothing(calls[k])
    /\ pc = "done" =>
         /\ EnvelopeClosed
         /\ Handed = TokensUnder(q.root)
         /\ Last(reply).n = Cardinality(Blocks) + (IF fullScoreInfo THEN 1 ELSE 0)

\* C16 witness: the envelope was closed after a block was made while the first
\* include dictionary was gone and a later one gave a suggestion of its own.
C16_Witness ==
  /\ EnvelopeClosed
  /\ \E k \in Blocks, i, j \in 1..Len(includeDict) :
       /\ i < j
       /\ includeDict[i] \in deleted
       /\ ~OpenedBy(calls[k], includeDict[i])
       /\ \E t \in EmittedTerms(calls[k]) : Producer(calls[k], t) = j

\* ------------------------------------------------------------------ C17
\* the block of call c ends with the marker
EndsWithMarker(c) ==
  c.hi = c.lo + 3 /\ reply[c.hi] = ReplyWithStringBuffer(NO_SUGGESTIONS_REPLY)

\* the block of call c ends with an array of n >= 1 pairs, each a two-element
\* array of a score and a term
EndsWithPairs(c) ==
  /\ c.hi > c.lo + 3
  /\ reply[c.lo + 3].type = "array"
  /\ reply[c.lo + 3].n >= 1
  /\ c.hi = c.lo + 3 + 3 * reply[c.lo + 3].n
  /\ \A i \in 1..reply[c.lo + 3].n :
       /\ reply[c.lo + 3 * i + 1] = ReplyWithArray(2)
       /\ reply[c.lo + 3 * i + 2].type = "double"
       /\ reply[c.lo + 3 * i + 3].type = "string"

\* C17: every emitted term block is an array of exactly three elements: the
\* literal TERM, the query term, and either the no-suggestions marker or an
\* array of (score, term) pairs whose declared length is the number of pairs
\* that follow; the marker is emitted exactly when the final suggestion set is
\* empty, including when the field mask dropped every candidate.
C17_BlockShape ==
  \A k \in Blocks :
    /\ reply[calls[k].lo] = ReplyWithArray(3)
    /\ reply[calls[k].lo + 1] = ReplyWithStringBuffer(TERM)
    /\ reply[calls[k].lo + 2] = ReplyWithStringBuffer(calls[k].term)
    /\ ElemSize(reply, calls[k].lo) = calls[k].hi - calls[k].lo + 1
    /\ CountElems(reply, calls[k].lo + 1, calls[k].hi) = 3
    /\ \/ EndsWithMarker(calls[k]) /\ Eligible(calls[k]) = {}
       \/ /\ EndsWithPairs(calls[k])
          /\ reply[calls[k].lo + 3].n = Cardinality(Eligible(calls[k]))
          /\ Eligible(calls[k]) # {}

\* C17 witness: a block ends with the marker although a term of the vocabulary
\* was within the distance: the field mask dropped it; and another block of the
\* same reply ends with pairs.
C17_Witness ==
  /\ \E k \in Blocks :
       /\ EndsWithMarker(calls[k])
       /\ \E t \in terms :
            WithinDistance(t, calls[k].term) /\ FilteredOut(t, calls[k].fieldMask)
  /\ \E k \in Blocks : EndsWithPairs(calls[k]) /\ reply[calls[k].lo + 3].n >= 2

\* ------------------------------------------------------------------ C18
\* the candidates the sources of call c enumerate
Enumerated(c) == {t \in Terms : Producer(c, t) <= Len(includeDict)}

\* C18: a candidate whose posting list exists but whose reader, restricted to
\* the term's field mask, yields nothing is never added to the set and never
\* emitted, in ratio mode and in full mode alike; it is not emitted with score 0
\* either.
C18_FilteredNeverEmitted ==
  \A k \in Blocks :
    /\ \A t \in Enumerated(calls[k]) :
         FilteredOut(t, calls[k].fieldMask) => t \notin EmittedTerms(calls[k])
    /\ \A i \in 1..NumPairs(calls[k]) :
         /\ ~FilteredOut(PairTerm(calls[k], i), calls[k].fieldMask)
         /\ ~ScoreEq(PairScore(calls[k], i), MinusOne)
         /\ PairTerm(calls[k], i) \in DOMAIN invidx =>
              ~ScoreEq(PairScore(calls[k], i), Zero)

\* C18 witness: in full mode a block was emitted for a term one of whose
\* candidates, enumerated from the vocabulary and from an include dictionary,
\* was filtered out, while another candidate was emitted.
C18_Witness ==
  /\ fullScoreInfo
  /\ \E k \in Blocks, t \in Terms :
       /\ Produces(calls[k], 0, t)
       /\ \E i \in 1..Len(includeDict) : Produces(calls[k], i, t)
       /\ FilteredOut(t, calls[k].fieldMask)
       /\ t \notin EmittedTerms(calls[k])
       /\ EmittedTerms(calls[k]) # {}

\* ------------------------------------------------------------------ C19
\* C19: a candidate that has no posting list gets score 0, in ratio mode and in
\* full mode alike, and is still added and emitted, once.
C19_NoPostingListScoresZero ==
  \A k \in Blocks :
    \A t \in Enumerated(calls[k]) :
      t \notin DOMAIN invidx =>
        /\ Cardinality({i \in 1..NumPairs(calls[k]) : PairTerm(calls[k], i) = t}) = 1
        /\ \A i \in 1..NumPairs(calls[k]) :
             PairTerm(calls[k], i) = t => PairScore(calls[k], i) = Zero

\* C19 witness: in ratio mode a block holds a dictionary word that has no
\* posting list, with score 0, next to a term of the vocabulary with a positive
\* score; both include dictionaries enumerated the dictionary word.
C19_Witness ==
  /\ ~fullScoreInfo
  /\ Len(includeDict) = 2
  /\ \E k \in Blocks : \E i, j \in 1..NumPairs(calls[k]) :
       /\ PairTerm(calls[k], i) \notin DOMAIN invidx
       /\ PairScore(calls[k], i) = Zero
       /\ Produces(calls[k], 1, PairTerm(calls[k], i))
       /\ Produces(calls[k], 2, PairTerm(calls[k], i))
       /\ PairTerm(calls[k], j) \in DOMAIN invidx
       /\ ScoreLess(Zero, PairScore(calls[k], j))

\* ------------------------------------------------------------------ C20
\* C20: every dictionary handle that opened is closed exactly once, before the
\* next one is opened and before the step that opened it returns, on every
\* path, the early return out of the exclude loop included: never more than one
\* handle is open, and none is open when a step or the request ends.
C20_HandlesClosed ==
  /\ Len(keys) % 2 = 0
  /\ \A i \in 1..Len(keys) :
       i % 2 = 1 =>
         /\ keys[i].op = "open"
         /\ keys[i + 1] = RedisModule_CloseKey(keys[i].dict)

\* C20 witness: the request is over; the second exclude dictionary held a term,
\* so its call returned out of the exclude loop, after validation had opened
\* every dictionary and the call had opened both exclude dictionaries.
C20_Witness ==
  /\ pc = "done" /\ EnvelopeClosed
  /\ Len(excludeDict) = 2
  /\ \E k \in 1..Len(calls) :
       /\ ~calls[k].ret
       /\ calls[k].term \notin terms
       /\ OpenedBy(calls[k], excludeDict[1])
       /\ calls[k].term \notin calls[k].dicts[excludeDict[1]]
       /\ InExcludeDict(calls[k])
  /\ Len(keys) >= 2 * Len(CheckedDicts) + 4

====
